---------------------------- MODULE Spec2Model ----------------------------
(***************************************************************************)
(* The log-structured key-value store of datastore/db.go: the active log,  *)
(* the sealed segments, the in-memory index, rollover, the background      *)
(* merge, the reader worker pool, the engine RWMutex, Close and Open.      *)
(***************************************************************************)
EXTENDS Integers, Sequences, FiniteSets, TLC

(***************************************************************************)
(* Bounds of the model.                                                    *)
(***************************************************************************)
\* Put calls in one behaviour of Spec and SessionSpec, of ConcSpec, of LiveSpec.
MaxPuts == 5
ConcPuts == 2
LivePuts == 2
\* Records in a file of a directory that Open is given.
MaxFileLen == 2

\* The largest connection counter of a pool that selection is given.
MaxConns == 2

\* runtime.NumCPU() of the machine; the pool starts NumCPU*2 workers.
NumCPU == 1

Keys == {"a", "b"}
\* Goroutines that call Get, and goroutines that call Put.
Readers == {"r1", "r2"}
Writers == {"w1"}
\* A segmentSize smaller than every record, and one that holds two records.
SmallSegment == 10
LargeSegment == 30
\* segmentSize values given to Open: 0 disables rollover.
SegmentSizes == {0, SmallSegment, LargeSegment}

\* The values the clients write: the n-th successful Put of a key writes the
\* key's name followed by n, so every written value is written once.
Value(key, n) == [of |-> key, ver |-> n]
NoValue == Value("none", 0)
NoKey == "none"
\* The file a read request names when segmentFile is "": the active log.
ActiveLog == -1

\* The decimal digits of n, as fmt.Sprintf("%d", n) prints them.
RECURSIVE Digits(_)
Digits(n) == IF n < 10 THEN <<n>> ELSE Append(Digits(n \div 10), n % 10)

(***************************************************************************)
(* Record codec (entry.go): size(4) | keyLen(4) | key | valueLen(4) | value *)
(***************************************************************************)
HeaderLen == 12

\* len(key) and len(value) in bytes.
KeyLen(key) == 1
ValueLen(value) == KeyLen(value.of) + Len(Digits(value.ver))

\* len(e.Encode())
EncodedLen(key, value) == KeyLen(key) + ValueLen(value) + HeaderLen

Entry(key, value) == [key |-> key, value |-> value]

\* The first n bytes of the encoding of a record, left in a file by a Write
\* that returned an error after writing them.
Cut(key, value, n) == [key |-> key, value |-> value, cut |-> n]
IsCut(rec) == "cut" \in DOMAIN rec

\* The bytes a record occupies in a file.
RecLen(rec) == IF IsCut(rec) THEN rec.cut ELSE EncodedLen(rec.key, rec.value)

(***************************************************************************)
(* Files: a file is the sequence of the records appended to it.            *)
(***************************************************************************)
RECURSIVE FileSize(_)
FileSize(file) == IF file = <<>> THEN 0 ELSE RecLen(Head(file)) + FileSize(Tail(file))

\* Byte offset at which the i-th record of file starts.
RecordOffset(file, i) == FileSize(SubSeq(file, 1, i - 1))

\* Seek(offset) then DecodeFromReader: the record that starts at offset, if any.
HasRecordAt(file, offset) == \E i \in 1..Len(file) : RecordOffset(file, i) = offset

RecordAt(file, offset) == file[CHOOSE i \in 1..Len(file) : RecordOffset(file, i) = offset]

(***************************************************************************)
(* Segment paths: fmt.Sprintf("%d.segment", n), compared as strings by     *)
(* sort.Strings.  A path is compared character by character; '.' sorts     *)
(* before every digit.                                                     *)
(***************************************************************************)
\* The character codes of "<n>.segment" up to and including the '.'.
DotChar == -1
PathChars(n) == Append(Digits(n), DotChar)

RECURSIVE SeqLess(_, _)
SeqLess(s, t) ==
    IF s = <<>> THEN t # <<>>
    ELSE IF t = <<>> THEN FALSE
    ELSE IF Head(s) # Head(t) THEN Head(s) < Head(t)
    ELSE SeqLess(Tail(s), Tail(t))

\* "<a>.segment" < "<b>.segment" as Go strings.
PathLess(a, b) == SeqLess(PathChars(a), PathChars(b))

\* sort.Strings(segmentFiles): ascending by path.
RECURSIVE SortStrings(_)
SortStrings(ids) ==
    IF ids = {} THEN <<>>
    ELSE LET least == CHOOSE a \in ids : \A b \in ids \ {a} : PathLess(a, b)
         IN  <<least>> \o SortStrings(ids \ {least})

RECURSIVE Reverse(_)
Reverse(s) == IF s = <<>> THEN <<>> ELSE Append(Reverse(Tail(s)), Head(s))

\* sort.Sort(sort.Reverse(sort.StringSlice(segmentFiles)))
SortStringsReverse(ids) == Reverse(SortStrings(ids))

MaxOf(S) == CHOOSE m \in S : \A x \in S : x <= m

(***************************************************************************)
(* State.                                                                  *)
(***************************************************************************)
VARIABLES
    out,                \* contents of the active log file current-data
    outOpen,            \* whether the handle db.out is open
    outOffset,          \* db.outOffset
    segmentSize,        \* db.segmentSize
    segmentNum,         \* db.segmentNum
    index,              \* db.index: key -> offset in the active log
    segments,           \* db.segments: key -> [file, offset]
    segFiles,           \* the *.segment files of the directory: id -> contents
    tmpExists,          \* whether merge.tmp exists in the directory
    simulateMergeError, \* the package flag simulateMergeError
    wHolder,            \* db.mu: who holds or has announced the write lock
    wpc,                \* every Put goroutine: its position
    mergeNew,           \* MergeSegments goroutines started, before the flag test
    mergeWait,          \* MergeSegments goroutines blocked in db.mu.Lock()
    rpc, rkey, rreq, rres, \* every Get goroutine: position, key, request, result
    requests,           \* pool.requests: the buffered channel of read requests
    serving,            \* the Get goroutines whose request a worker is reading
    workersExited,      \* worker goroutines that have returned
    ctxClosed,          \* whether pool.ctx is closed
    closePc,            \* position of Close
    latest,             \* history: key -> number of successful Puts of the key
    putsLeft,           \* the Put calls the clients have yet to make
    lastMerge,          \* history: how the latest merge pass ended
    afterClose,         \* history: whether a Get was called after Close began
    torn,               \* the directory: file -> bytes of a partial record at its end
    openErr,            \* what the latest Open returned
    IsHealthy,          \* balancer: server.IsHealthy of every pool entry
    ConnCounter,        \* balancer: server.ConnCounter of every pool entry
    traceEnabled,       \* balancer: the --trace flag
    loopVarPerIteration,\* balancer build: whether a range loop has one variable per iteration
    prober,             \* every prober goroutine: its position
    lastProbe,          \* history: the result of the latest completed probe of a backend
    hpc,                \* every request handler: its position
    idx,                \* getLeastConnectedServer: the position of the range loop
    minConns,           \* getLeastConnectedServer: minConns
    selected,           \* getLeastConnectedServer: selected, then the handler's selectedServer
    respStatus,         \* the status written to the client, 0 before
    respFrom,           \* the lb-from header of the response
    respBody,           \* the body of the response
    respHeader,         \* the headers sent with the status
    fwdErr,             \* what forward returned to forwardWithCounter
    upstream,           \* history: what the upstream call of the request returned
    cmdline,            \* balancer: the --timeout-sec values on the command line
    timeoutSec,         \* balancer: *timeoutSec
    timeout,            \* balancer: the package variable timeout, in seconds
    mainPc,             \* balancer: position of main
    beforeCrash         \* history: what Get returned for every key before the process died

dbVars == <<out, outOpen, outOffset, segmentSize, segmentNum, index, segments, segFiles, tmpExists, simulateMergeError>>
lockVars == <<wHolder, wpc, mergeNew, mergeWait>>
readVars == <<rpc, rkey, rreq, rres, requests, serving, afterClose>>
poolVars == <<workersExited, ctxClosed, closePc>>
histVars == <<latest, putsLeft, lastMerge>>
lbVars == <<IsHealthy, ConnCounter, traceEnabled, loopVarPerIteration, prober, lastProbe, hpc, idx, minConns, selected, respStatus, respFrom, respBody, respHeader, fwdErr, upstream>>
flagVars == <<cmdline, timeoutSec, timeout, mainPc>>
\* What no step of an open engine changes.
notEngine == <<torn, openErr, lbVars, flagVars, beforeCrash>>
\* What no step of a prober or a handler changes.
storeVars == <<dbVars, lockVars, readVars, poolVars, histVars, torn, openErr, flagVars, beforeCrash>>
vars == <<dbVars, lockVars, readVars, poolVars, histVars, notEngine>>

\* newReadWorkerPool(0, ...): workers = runtime.NumCPU() * 2, queue of workers*2.
NumWorkers == NumCPU * 2
QueueCap == NumWorkers * 2

EmptyMap == [k \in {} |-> 0]

\* The engine fields and the directory, as one value.
Db == [out |-> out, outOffset |-> outOffset, segmentNum |-> segmentNum, index |-> index, segments |-> segments, segFiles |-> segFiles, spawned |-> 0]

(***************************************************************************)
(* Open and recovery.                                                      *)
(***************************************************************************)
\* recover(), the active log: index[record.key] = outOffset for every record.
RecoverIndex(file) == [k \in {file[i].key : i \in 1..Len(file)} |-> RecordOffset(file, MaxOf({i \in 1..Len(file) : file[i].key = k}))]

\* recoverFromSegment: segments[record.key] = {file, offset}; delete(index, key).
RECURSIVE RecoverFromSegment(_, _, _, _)
RecoverFromSegment(db, id, file, i) ==
    IF i > Len(file) THEN db
    ELSE LET key == file[i].key
             info == [file |-> id, offset |-> RecordOffset(file, i)]
         IN  RecoverFromSegment(
                 [db EXCEPT !.segments = (key :> info) @@ db.segments,
                            !.index = [k \in DOMAIN db.index \ {key} |-> db.index[k]]],
                 id, file, i + 1)

\* A segment number taken from the file scanned last.
NextSegmentNumLastScanned(num, id) == id + 1

\* recover: if num >= db.segmentNum then db.segmentNum = num + 1.
NextSegmentNum(num, id) == IF id >= num THEN id + 1 ELSE num

\* The loop over the sorted segment files, with the segmentNum update.
RECURSIVE RecoverSegments(_, _)
RecoverSegments(db, order) ==
    IF order = <<>> THEN db
    ELSE LET id == Head(order)
             scanned == RecoverFromSegment(db, id, db.segFiles[id], 1)
             num == NextSegmentNum(scanned.segmentNum, id)
         IN  RecoverSegments([scanned EXCEPT !.segmentNum = num], Tail(order))

\* The bytes of a partial record at the end of a file.
TornOf(t, id) == IF id \in DOMAIN t THEN t[id] ELSE 0

\* The i-th call of DecodeFromReader on a file of whole records followed by
\* tornBytes of a partial one: the bytes consumed and the error.
DecodeFromReader(file, tornBytes, i) ==
    IF i <= Len(file) THEN [n |-> RecLen(file[i]), err |-> "nil"]
    ELSE [n |-> tornBytes, err |-> "EOF"]

\* The scan loops of recover and recoverFromSegment at the end of a file:
\* on io.EOF, corruption if n != 0, else break.
ScanError(file, tornBytes) ==
    LET last == DecodeFromReader(file, tornBytes, Len(file) + 1)
    IN  IF last.err = "EOF" /\ last.n # 0 THEN "corrupted" ELSE "nil"

\* A recover that does not check how a segment file ends.
RecoverErrorActiveOnly(activeLog, files, t) == ScanError(activeLog, TornOf(t, ActiveLog))

\* The error recover() returns: the active log is scanned first, then the
\* segment files, and the first corrupted file ends the scan.
RecoverError(activeLog, files, t) ==
    IF ScanError(activeLog, TornOf(t, ActiveLog)) # "nil" THEN "corrupted"
    ELSE IF \E id \in DOMAIN files : ScanError(files[id], TornOf(t, id)) # "nil" THEN "corrupted"
    ELSE "nil"

\* recover() on a directory holding the active log and the segment files.
Recover(activeLog, files) ==
    RecoverSegments(
        [out |-> activeLog, outOffset |-> FileSize(activeLog), segmentNum |-> 0,
         index |-> RecoverIndex(activeLog), segments |-> EmptyMap,
         segFiles |-> files, spawned |-> 0],
        SortStrings(DOMAIN files))

(***************************************************************************)
(* Put and rollover.                                                       *)
(***************************************************************************)
\* A rollover that forgets the mappings into older segments.
CreateNewSegmentForgetful(db) ==
    LET id == db.segmentNum
        moved == [k \in DOMAIN db.index |-> [file |-> id, offset |-> db.index[k]]]
    IN  [out |-> <<>>, outOffset |-> 0, segmentNum |-> id + 1,
         index |-> EmptyMap, segments |-> moved,
         segFiles |-> (id :> db.out) @@ db.segFiles, spawned |-> db.spawned + 1]

\* createNewSegment: the active log becomes <segmentNum>.segment, every
\* active-log index entry becomes a segment mapping, a merge is started.
CreateNewSegment(db) ==
    LET id == db.segmentNum
        moved == [k \in DOMAIN db.index |-> [file |-> id, offset |-> db.index[k]]]
    IN  [out |-> <<>>, outOffset |-> 0, segmentNum |-> id + 1,
         index |-> EmptyMap, segments |-> moved @@ db.segments,
         segFiles |-> (id :> db.out) @@ db.segFiles, spawned |-> db.spawned + 1]

\* A rollover test that does not look at whether segmentSize is set.
NeedsRolloverAnySize(db, size, len) == db.outOffset + len > size

\* The rollover test of Put.
NeedsRollover(db, size, len) == size > 0 /\ db.outOffset + len > size

\* db.out.Write(encoded) and the index update of Put.
AppendRecord(db, key, value) ==
    [db EXCEPT !.out = Append(db.out, Entry(key, value)),
               !.segments = [k \in DOMAIN db.segments \ {key} |-> db.segments[k]],
               !.index = (key :> db.outOffset) @@ db.index,
               !.outOffset = db.outOffset + EncodedLen(key, value)]

\* The body of Put on an open active log.
PutRecord(db, size, key, value) ==
    AppendRecord(IF NeedsRollover(db, size, EncodedLen(key, value)) THEN CreateNewSegment(db) ELSE db, key, value)

(***************************************************************************)
(* Merge.                                                                  *)
(***************************************************************************)
\* The scan of one segment: allKeys[record.key] is set if the key is not yet
\* there.  The loop breaks on io.EOF, which is also what a cut record at the
\* end of the file yields.
RECURSIVE ScanSegment(_, _, _)
ScanSegment(allKeys, file, i) ==
    IF i > Len(file) \/ IsCut(file[i]) THEN allKeys
    ELSE ScanSegment(
             IF file[i].key \in DOMAIN allKeys THEN allKeys ELSE (file[i].key :> file[i].value) @@ allKeys,
             file, i + 1)

\* The scan of the segment files in the order given.
RECURSIVE ScanSegments(_, _, _)
ScanSegments(allKeys, files, order) ==
    IF order = <<>> THEN allKeys
    ELSE ScanSegments(ScanSegment(allKeys, files[Head(order)], 1), files, Tail(order))

\* A scan that stops after the first file of the reversed order.
MergeAllKeysNewestFile(files) ==
    LET order == SortStringsReverse(DOMAIN files)
    IN  ScanSegments(EmptyMap, files, IF order = <<>> THEN <<>> ELSE <<Head(order)>>)

\* allKeys of MergeSegments: the files are scanned in reverse string order.
MergeAllKeys(files) == ScanSegments(EmptyMap, files, SortStringsReverse(DOMAIN files))

\* The orders in which range may visit the keys of a Go map.
MapOrders(S) == {ord \in [1..Cardinality(S) -> S] : \A i, j \in 1..Cardinality(S) : i # j => ord[i] # ord[j]}

\* The records written to merge.tmp when range visits allKeys in order ord.
MergedFile(allKeys, ord) == [i \in 1..Len(ord) |-> Entry(ord[i], allKeys[ord[i]])]

\* newSegments[key].offset
MergedOffset(file, key) == RecordOffset(file, CHOOSE i \in 1..Len(file) : file[i].key = key)

\* A repointing loop that maps every key of newSegments.
RepointEveryKey(segs, file, id) ==
    [k \in DOMAIN segs \cup {file[i].key : i \in 1..Len(file)} |->
        IF \E i \in 1..Len(file) : file[i].key = k
        THEN [file |-> id, offset |-> MergedOffset(file, k)]
        ELSE segs[k]]

\* A pass that leaves every mapping as it was.
RepointNone(segs, file, id) == segs

\* The repointing loop: every key of newSegments that has a segment mapping.
Repoint(segs, file, id) ==
    [k \in DOMAIN segs |->
        IF \E i \in 1..Len(file) : file[i].key = k
        THEN [file |-> id, offset |-> MergedOffset(file, k)]
        ELSE segs[k]]

\* A pass that does not advance db.segmentNum.
MergeCommitSameId(db, ord) ==
    LET id == db.segmentNum
        file == MergedFile(MergeAllKeys(db.segFiles), ord)
    IN  [db EXCEPT !.segFiles = (id :> file),
                   !.segments = Repoint(db.segments, file, id)]

\* MergeSegments from the rename on: the merged segment replaces the inputs.
MergeCommit(db, ord) ==
    LET id == db.segmentNum
        file == MergedFile(MergeAllKeys(db.segFiles), ord)
    IN  [db EXCEPT !.segFiles = (id :> file),
                   !.segments = Repoint(db.segments, file, id),
                   !.segmentNum = id + 1]

\* Where a pass can fail: opening merge.tmp, opening or decoding a segment,
\* writing merge.tmp, renaming it.
MergeFailPoints == {"open_tmp", "open_seg", "decode", "write", "rename"}

\* A cleanup that leaves merge.tmp in the directory.
TmpAfterFailureKept(point, before) == IF point = "open_tmp" THEN before ELSE TRUE

\* merge.tmp after a pass that failed at point: every path after the file
\* was created ends in os.Remove(tempFile).
TmpAfterFailure(point, before) == IF point = "open_tmp" THEN before ELSE FALSE

(***************************************************************************)
(* Get.                                                                    *)
(***************************************************************************)
\* A lookup that consults the active-log index only.
FoundInIndex(key) == key \in DOMAIN index

\* The lookup of Get: the segment mapping first, then the active-log index.
Found(key) == key \in DOMAIN segments \/ key \in DOMAIN index

Lookup(key) ==
    IF key \in DOMAIN segments THEN segments[key]
    ELSE [file |-> ActiveLog, offset |-> index[key]]

Result(err, value) == [err |-> err, value |-> value]

\* performRead: open the file named by the request, seek, decode one record.
\* A decode that starts in the bytes of a cut record fails.
PerformRead(req) ==
    LET exists == req.file = ActiveLog \/ req.file \in DOMAIN segFiles
        file == IF req.file = ActiveLog THEN out ELSE segFiles[req.file]
    IN  IF ~exists THEN Result("open", NoValue)
        ELSE IF ~HasRecordAt(file, req.offset) THEN Result("decode", NoValue)
        ELSE IF IsCut(RecordAt(file, req.offset)) THEN Result("decode", NoValue)
        ELSE Result("nil", RecordAt(file, req.offset).value)

\* What Get(key) returns when it runs alone on the current state.
GetValue(key) == IF Found(key) THEN PerformRead(Lookup(key)) ELSE Result("notfound", NoValue)

(***************************************************************************)
(* Size.                                                                   *)
(***************************************************************************)
\* The loop of Size over the segment files the glob returned.
RECURSIVE SegmentsSize(_, _)
SegmentsSize(files, order) ==
    IF order = <<>> THEN 0
    ELSE FileSize(files[Head(order)]) + SegmentsSize(files, Tail(order))

\* A Size that stats the active log only.
SizeOfActiveLog(open, activeLog, files) ==
    IF open THEN Result("nil", FileSize(activeLog)) ELSE Result("stat", 0)

\* Size() on a handle that is open or not, an active log and the segment
\* files: db.out.Stat() fails on a closed handle; else the size of the
\* active log plus the sizes of the *.segment files.
SizeOf(open, activeLog, files) ==
    IF open
    THEN Result("nil", FileSize(activeLog) + SegmentsSize(files, SortStrings(DOMAIN files)))
    ELSE Result("stat", 0)

\* What Size() returns in the current state.
Size == SizeOf(outOpen, out, segFiles)

(***************************************************************************)
(* The balancer (cmd/balancer/balancer.go): the pool, the selection loop.  *)
(***************************************************************************)
\* serversPool, by address.
serversPool == <<"server1", "server2", "server3">>
Backends == {serversPool[i] : i \in 1..Len(serversPool)}
\* The client requests the balancer handles, one handler goroutine each.
Reqs == {"q1", "q2", "q3"}
\* A nil *BackendServer.
Nil == "nil"
\* math.MaxInt32
MaxInt32 == 2147483647

\* A loop body that also takes a server with as many connections as the
\* least seen so far.
SelectIterationLastWins(healthy, conns, i, st) ==
    LET server == serversPool[i]
    IN  IF ~healthy[server] THEN st
        ELSE IF conns[server] <= st.minConns
             THEN [minConns |-> conns[server], selected |-> server]
             ELSE st

\* One iteration of the range loop of getLeastConnectedServer, on pool entry
\* i, from the locals st = [minConns, selected].
SelectIteration(healthy, conns, i, st) ==
    LET server == serversPool[i]
    IN  IF ~healthy[server] THEN st
        ELSE IF conns[server] < st.minConns
             THEN [minConns |-> conns[server], selected |-> server]
             ELSE st

\* Response bodies: none written, the handler's 503 text, the upstream's body.
NoBody == ""
NoBackendBody == "No available backend server"
UpstreamBody == "upstream"

\* The headers http.Error sets with its plain-text body.
NoBackendHeader ==
    ("Content-Type" :> <<"text/plain; charset=utf-8">>) @@ ("X-Content-Type-Options" :> <<"nosniff">>)

\* The name of the tracing header.
LbFrom == "lb-from"

\* http.Header.Add and http.Header.Set on a header map.
HeaderAdd(h, k, v) ==
    IF k \in DOMAIN h THEN [h EXCEPT ![k] = Append(@, v)] ELSE (k :> <<v>>) @@ h
HeaderSet(h, k, v) == (k :> <<v>>) @@ h

\* A fresh http.ResponseWriter: its header map, the status and the headers
\* that went out with it (status 0: nothing out yet), and the body.
NewWriter == [header |-> EmptyMap, status |-> 0, sent |-> EmptyMap, body |-> NoBody]

\* writer.WriteHeader(code): the status goes out with the header map as it
\* is now; later changes of the map, and later calls, have no effect.
WriteHeader(w, code) ==
    IF w.status # 0 THEN w ELSE [w EXCEPT !.status = code, !.sent = w.header]

\* io.Copy(writer, resp.Body).
CopyBody(w, body) == [w EXCEPT !.body = body]

\* The loops of forward over resp.Header: writer.Header().Add(k, value) for
\* every value of every key, the values of a key in their order.
RECURSIVE AddValues(_, _, _, _)
AddValues(h, k, values, i) ==
    IF i > Len(values) THEN h ELSE AddValues(HeaderAdd(h, k, values[i]), k, values, i + 1)
RECURSIVE CopyHeaders(_, _, _)
CopyHeaders(h, from, keys) ==
    IF keys = {}
    THEN h
    ELSE LET k == CHOOSE x \in keys : TRUE
         IN  CopyHeaders(AddValues(h, k, from[k], 1), from, keys \ {k})

\* The result of http.DefaultClient.Do: a transport error, or a response.
TransportError(err) == [err |-> err, status |-> 0, header |-> EmptyMap, body |-> NoBody]
Response(status, header, body) == [err |-> "nil", status |-> status, header |-> header, body |-> body]

\* No upstream call has been made.
NoUpstream == Response(0, EmptyMap, NoBody)

\* forward with lb-from set after the status has been written.
ForwardTracingLate(dst, w, resp, trace) ==
    IF resp.err = "nil"
    THEN LET copied == [w EXCEPT !.header = CopyHeaders(w.header, resp.header, DOMAIN resp.header)]
             status == WriteHeader(copied, resp.status)
             traced == IF trace THEN [status EXCEPT !.header = HeaderSet(@, LbFrom, dst)] ELSE status
         IN  [writer |-> CopyBody(traced, resp.body), err |-> "nil"]
    ELSE [writer |-> WriteHeader(w, 503), err |-> resp.err]

\* forward that sets lb-from whether or not the upstream call succeeded.
ForwardTracingErrors(dst, w, resp, trace) ==
    LET copied == [w EXCEPT !.header = CopyHeaders(w.header, resp.header, DOMAIN resp.header)]
        traced == IF trace THEN [copied EXCEPT !.header = HeaderSet(@, LbFrom, dst)] ELSE copied
    IN  IF resp.err = "nil"
        THEN [writer |-> CopyBody(WriteHeader(traced, resp.status), resp.body), err |-> "nil"]
        ELSE [writer |-> WriteHeader(traced, 503), err |-> resp.err]

\* forward(dst, writer, req) once the upstream call has returned resp: what
\* it leaves in the writer and what it returns.
Forward(dst, w, resp, trace) ==
    IF resp.err = "nil"
    THEN LET copied == [w EXCEPT !.header = CopyHeaders(w.header, resp.header, DOMAIN resp.header)]
             traced == IF trace THEN [copied EXCEPT !.header = HeaderSet(@, LbFrom, dst)] ELSE copied
             status == WriteHeader(traced, resp.status)
         IN  [writer |-> CopyBody(status, resp.body), err |-> "nil"]
    ELSE [writer |-> WriteHeader(w, 503), err |-> resp.err]

\* The lb-from value a client finds in the headers of a response.
FromOf(header) == IF LbFrom \in DOMAIN header THEN header[LbFrom][1] ELSE Nil

\* Locals that start at the first entry of the pool.
SelectStartAtFirst == [minConns |-> MaxInt32, selected |-> serversPool[1]]

\* The locals of getLeastConnectedServer before the loop.
SelectStart == [minConns |-> MaxInt32, selected |-> Nil]

\* No tick yet and no request yet.
HandlersIdle ==
    /\ prober = [b \in Backends |-> "tick"]
    /\ lastProbe = [b \in Backends |-> "none"]
    /\ hpc = [q \in Reqs |-> "idle"]
    /\ idx = [q \in Reqs |-> 0]
    /\ minConns = [q \in Reqs |-> 0]
    /\ selected = [q \in Reqs |-> Nil]
    /\ respStatus = [q \in Reqs |-> 0]
    /\ respFrom = [q \in Reqs |-> Nil]
    /\ respBody = [q \in Reqs |-> NoBody]
    /\ respHeader = [q \in Reqs |-> EmptyMap]
    /\ fwdErr = [q \in Reqs |-> "nil"]
    /\ upstream = [q \in Reqs |-> NoUpstream]

\* The default of the --timeout-sec flag.
DefaultTimeoutSec == 3

\* Package initialisation: timeoutSec points at the flag's default, and
\* timeout is computed from it.
PackageInit ==
    /\ timeoutSec = DefaultTimeoutSec
    /\ timeout = timeoutSec
    /\ mainPc = "init"

\* main has parsed a command line without --timeout-sec.
DefaultFlags ==
    /\ cmdline = <<>>
    /\ timeoutSec = DefaultTimeoutSec
    /\ timeout = timeoutSec
    /\ mainPc = "serving"

\* The pool as its literals declare it.
PoolAsDeclared ==
    /\ IsHealthy = [b \in Backends |-> FALSE]
    /\ ConnCounter = [b \in Backends |-> 0]

\* The balancer after main has started the probers and the frontend, before
\* the first tick and the first request.
LbStart ==
    /\ PoolAsDeclared
    /\ HandlersIdle
    /\ DefaultFlags

\* The balancer while only the storage engine runs.
BalancerIdle == LbStart /\ traceEnabled = FALSE /\ loopVarPerIteration = TRUE

(***************************************************************************)
(* Initial state: Open(dir, size) on an empty directory, with clients that *)
(* will make at most puts calls of Put.                                    *)
(***************************************************************************)
NoRequest == [file |-> ActiveLog, offset |-> 0]
NoResult == Result("nil", NoValue)

StoreInit(sizes, puts) ==
    /\ out = <<>>
    /\ outOpen = TRUE
    /\ outOffset = 0
    /\ segmentSize \in sizes
    /\ segmentNum = 0
    /\ index = EmptyMap
    /\ segments = EmptyMap
    /\ segFiles = EmptyMap
    /\ tmpExists = FALSE
    /\ simulateMergeError \in BOOLEAN
    /\ wHolder = "none"
    /\ wpc = [p \in Writers |-> "idle"]
    /\ mergeNew = 0
    /\ mergeWait = 0
    /\ rpc = [r \in Readers |-> "idle"]
    /\ rkey = [r \in Readers |-> NoKey]
    /\ rreq = [r \in Readers |-> NoRequest]
    /\ rres = [r \in Readers |-> NoResult]
    /\ requests = <<>>
    /\ serving = {}
    /\ workersExited = 0
    /\ ctxClosed = FALSE
    /\ closePc = "none"
    /\ latest = [k \in Keys |-> 0]
    /\ putsLeft = puts
    /\ lastMerge = "none"
    /\ afterClose = [r \in Readers |-> FALSE]
    /\ torn = EmptyMap
    /\ openErr = "nil"
    /\ beforeCrash = [k \in Keys |-> NoResult]

InitWith(sizes, puts) == StoreInit(sizes, puts) /\ BalancerIdle

Init == InitWith(SegmentSizes, MaxPuts)

(***************************************************************************)
(* db.mu, a sync.RWMutex.  A Lock call first takes the writer mutex and    *)
(* announces itself, which makes later RLock calls wait, then waits for    *)
(* the readers that hold the lock; Unlock admits every waiting reader.     *)
(***************************************************************************)
\* The Get goroutines that hold the read lock.
ActiveReaders == {r \in Readers : rpc[r] \in {"locked", "read", "sent", "ret"}}

\* A read lock that is granted while a writer waits for the readers.
RLockGrantedPastWriter == wHolder = "none" \/ ActiveReaders # {}

\* RLock returns at once unless a writer holds or has announced the lock.
RLockGranted == wHolder = "none"

\* A write lock that does not wait for the readers.
LockGrantedOverReaders == TRUE

\* The announced writer gets the lock when no reader holds it.
LockGranted == ActiveReaders = {}

\* Unlock: the readers that waited behind the writer now hold the read lock.
AdmitReaders == [r \in Readers |-> IF rpc[r] = "rwait" THEN "locked" ELSE rpc[r]]

(***************************************************************************)
(* Put.                                                                    *)
(***************************************************************************)
\* A goroutine calls Put and blocks in db.mu.Lock().
PutCall(p) ==
    /\ wpc[p] = "idle"
    /\ putsLeft > 0
    /\ wpc' = [wpc EXCEPT ![p] = "lock"]
    /\ putsLeft' = putsLeft - 1
    /\ UNCHANGED <<dbVars, wHolder, mergeNew, mergeWait, readVars, poolVars, latest, lastMerge>>
    /\ UNCHANGED notEngine

\* The Put goroutine takes the writer mutex and announces itself.
PutAcquire(p) ==
    /\ wpc[p] = "lock"
    /\ wHolder = "none"
    /\ wHolder' = p
    /\ UNCHANGED <<dbVars, wpc, mergeNew, mergeWait, readVars, poolVars, histVars>>
    /\ UNCHANGED notEngine

\* The value a client passes to its next Put of key.
NextValue(key) == Value(key, latest[key] + 1)

\* The body of Put(key, NextValue(key)) under the lock, and the deferred
\* Unlock.  On a closed active log the rollover's Close or the Write fails
\* and nothing changes.
PutBody(p, key) ==
    /\ wHolder = p
    /\ LockGranted
    /\ LET db == PutRecord(Db, segmentSize, key, NextValue(key))
       IN  IF outOpen
           THEN /\ out' = db.out
                /\ outOffset' = db.outOffset
                /\ segmentNum' = db.segmentNum
                /\ index' = db.index
                /\ segments' = db.segments
                /\ segFiles' = db.segFiles
                /\ mergeNew' = mergeNew + db.spawned
                /\ latest' = [latest EXCEPT ![key] = @ + 1]
           ELSE UNCHANGED <<out, outOffset, segmentNum, index, segments, segFiles, mergeNew, latest>>
    /\ wHolder' = "none"
    /\ wpc' = [wpc EXCEPT ![p] = "idle"]
    /\ rpc' = AdmitReaders
    /\ UNCHANGED <<outOpen, segmentSize, tmpExists, simulateMergeError, mergeWait>>
    /\ UNCHANGED <<rkey, rreq, rres, requests, serving, afterClose, poolVars, putsLeft, lastMerge>>
    /\ UNCHANGED notEngine

(***************************************************************************)
(* MergeSegments, one goroutine per rollover.                              *)
(***************************************************************************)
\* The goroutine starts: it returns if simulateMergeError is set, else it
\* blocks in db.mu.Lock().
MergeStart ==
    /\ mergeNew > 0
    /\ mergeNew' = mergeNew - 1
    /\ IF simulateMergeError
       THEN /\ lastMerge' = "skipped"
            /\ UNCHANGED mergeWait
       ELSE /\ mergeWait' = mergeWait + 1
            /\ UNCHANGED lastMerge
    /\ UNCHANGED <<dbVars, wHolder, wpc, readVars, poolVars, latest, putsLeft>>
    /\ UNCHANGED notEngine

\* The goroutine takes the writer mutex and announces itself.
MergeAcquire ==
    /\ mergeWait > 0
    /\ wHolder = "none"
    /\ wHolder' = "merge"
    /\ mergeWait' = mergeWait - 1
    /\ UNCHANGED <<dbVars, wpc, mergeNew, readVars, poolVars, histVars>>
    /\ UNCHANGED notEngine

\* What every end of a pass does: the deferred Unlock.
MergeUnlock ==
    /\ wHolder' = "none"
    /\ rpc' = AdmitReaders
    /\ UNCHANGED <<out, outOpen, outOffset, segmentSize, simulateMergeError>>
    /\ UNCHANGED <<wpc, mergeNew, mergeWait>>
    /\ UNCHANGED <<rkey, rreq, rres, requests, serving, afterClose, poolVars, latest, putsLeft>>
    /\ UNCHANGED notEngine

\* The pass finds fewer than two segment files and returns.
MergeFew ==
    /\ wHolder = "merge"
    /\ LockGranted
    /\ Cardinality(DOMAIN segFiles) < 2
    /\ lastMerge' = "few"
    /\ MergeUnlock
    /\ UNCHANGED <<segmentNum, index, segments, segFiles, tmpExists>>

\* The pass fails at one of its I/O steps, removes merge.tmp and returns.
MergeFail(point) ==
    /\ wHolder = "merge"
    /\ LockGranted
    /\ Cardinality(DOMAIN segFiles) >= 2
    /\ tmpExists' = TmpAfterFailure(point, tmpExists)
    /\ lastMerge' = "failed"
    /\ MergeUnlock
    /\ UNCHANGED <<segmentNum, index, segments, segFiles>>

\* The pass completes: merge.tmp is written in the order range visits
\* allKeys, renamed to <segmentNum>.segment, the index is repointed and the
\* input files are removed.
MergeDone(ord) ==
    /\ wHolder = "merge"
    /\ LockGranted
    /\ Cardinality(DOMAIN segFiles) >= 2
    /\ LET db == MergeCommit(Db, ord)
       IN  /\ segFiles' = db.segFiles
           /\ segments' = db.segments
           /\ segmentNum' = db.segmentNum
    /\ tmpExists' = FALSE
    /\ lastMerge' = "merged"
    /\ MergeUnlock
    /\ UNCHANGED index

(***************************************************************************)
(* Get and the reader worker pool.                                         *)
(***************************************************************************)
IdleWorkers == NumWorkers - workersExited - Cardinality(serving)

\* A goroutine calls Get: db.mu.RLock().
GetCall(r) ==
    /\ rpc[r] = "idle"
    /\ rpc' = [rpc EXCEPT ![r] = IF RLockGranted THEN "locked" ELSE "rwait"]
    /\ afterClose' = [afterClose EXCEPT ![r] = ctxClosed]
    /\ UNCHANGED <<dbVars, lockVars, rkey, rreq, rres, requests, serving, poolVars, histVars>>
    /\ UNCHANGED notEngine

\* The index lookup of Get(key) under the read lock.
GetLookup(r, key) ==
    /\ rpc[r] = "locked"
    /\ rkey' = [rkey EXCEPT ![r] = key]
    /\ IF Found(key)
       THEN /\ rreq' = [rreq EXCEPT ![r] = Lookup(key)]
            /\ rpc' = [rpc EXCEPT ![r] = "read"]
            /\ UNCHANGED rres
       ELSE /\ rres' = [rres EXCEPT ![r] = Result("notfound", NoValue)]
            /\ rpc' = [rpc EXCEPT ![r] = "ret"]
            /\ UNCHANGED rreq
    /\ UNCHANGED <<dbVars, lockVars, requests, serving, afterClose, poolVars, histVars>>
    /\ UNCHANGED notEngine

\* pool.read, the case pool.requests <- req: the request is queued.
ReadSend(r) ==
    /\ rpc[r] = "read"
    /\ Len(requests) < QueueCap
    /\ requests' = Append(requests, r)
    /\ rpc' = [rpc EXCEPT ![r] = "sent"]
    /\ UNCHANGED <<dbVars, lockVars, rkey, rreq, rres, serving, afterClose, poolVars, histVars>>
    /\ UNCHANGED notEngine

\* pool.read, the case <-pool.ctx: the shutting-down error.
ReadShutdown(r) ==
    /\ rpc[r] = "read"
    /\ ctxClosed
    /\ rres' = [rres EXCEPT ![r] = Result("shutdown", NoValue)]
    /\ rreq' = [rreq EXCEPT ![r] = NoRequest]
    /\ rpc' = [rpc EXCEPT ![r] = "ret"]
    /\ UNCHANGED <<dbVars, lockVars, rkey, requests, serving, afterClose, poolVars, histVars>>
    /\ UNCHANGED notEngine

\* worker, the case req := <-pool.requests.
WorkerTake ==
    /\ IdleWorkers > 0
    /\ requests # <<>>
    /\ serving' = serving \cup {Head(requests)}
    /\ requests' = Tail(requests)
    /\ UNCHANGED <<dbVars, lockVars, rpc, rkey, rreq, rres, afterClose, poolVars, histVars>>
    /\ UNCHANGED notEngine

\* The worker reads the record and sends the result; the Get goroutine
\* receives it from its result channel.
WorkerServe(r) ==
    /\ r \in serving
    /\ serving' = serving \ {r}
    /\ rres' = [rres EXCEPT ![r] = PerformRead(rreq[r])]
    /\ rreq' = [rreq EXCEPT ![r] = NoRequest]
    /\ rpc' = [rpc EXCEPT ![r] = "ret"]
    /\ UNCHANGED <<dbVars, lockVars, rkey, requests, afterClose, poolVars, histVars>>
    /\ UNCHANGED notEngine

\* worker, the case <-pool.ctx: the goroutine returns.
WorkerExit ==
    /\ IdleWorkers > 0
    /\ ctxClosed
    /\ workersExited' = workersExited + 1
    /\ UNCHANGED <<dbVars, lockVars, readVars, ctxClosed, closePc, histVars>>
    /\ UNCHANGED notEngine

\* Get returns its result; the deferred RUnlock.
GetReturn(r) ==
    /\ rpc[r] = "ret"
    /\ rpc' = [rpc EXCEPT ![r] = "idle"]
    /\ rkey' = [rkey EXCEPT ![r] = NoKey]
    /\ rres' = [rres EXCEPT ![r] = NoResult]
    /\ afterClose' = [afterClose EXCEPT ![r] = FALSE]
    /\ UNCHANGED <<dbVars, lockVars, rreq, requests, serving, poolVars, histVars>>
    /\ UNCHANGED notEngine

(***************************************************************************)
(* Close and a following Open.                                             *)
(***************************************************************************)
\* A Close that does not wait for the workers.
WgWaitSkipped == TRUE

\* pool.wg.Wait() returns when every worker has called Done.
WgWait == workersExited = NumWorkers

\* Close, first step: readerPool.close() closes pool.ctx.
CloseBegin ==
    /\ closePc = "none"
    /\ ctxClosed' = TRUE
    /\ closePc' = "wait"
    /\ UNCHANGED <<dbVars, lockVars, readVars, workersExited, histVars>>
    /\ UNCHANGED notEngine

\* Close, the rest: wg.Wait() returns, db.out.Close(), return.
CloseFinish ==
    /\ closePc = "wait"
    /\ WgWait
    /\ outOpen' = FALSE
    /\ closePc' = "done"
    /\ UNCHANGED <<out, outOffset, segmentSize, segmentNum, index, segments, segFiles, tmpExists, simulateMergeError>>
    /\ UNCHANGED <<lockVars, readVars, workersExited, ctxClosed, histVars>>
    /\ UNCHANGED notEngine

\* No goroutine of the closed engine is left: no Get, no Put, no merge.
Quiescent ==
    /\ \A r \in Readers : rpc[r] = "idle"
    /\ \A p \in Writers : wpc[p] = "idle"
    /\ wHolder = "none"
    /\ mergeNew = 0
    /\ mergeWait = 0

\* Open(dir, segmentSize) on the directory of the closed engine.
Reopen ==
    /\ closePc = "done"
    /\ Quiescent
    /\ openErr' = RecoverError(out, segFiles, torn)
    /\ IF openErr' = "nil"
       THEN /\ LET db == Recover(out, segFiles)
               IN  /\ outOffset' = db.outOffset
                   /\ segmentNum' = db.segmentNum
                   /\ index' = db.index
                   /\ segments' = db.segments
            /\ outOpen' = TRUE
            /\ workersExited' = 0
            /\ ctxClosed' = FALSE
            /\ closePc' = "none"
       ELSE UNCHANGED <<outOffset, segmentNum, index, segments, outOpen, workersExited, ctxClosed, closePc>>
    /\ UNCHANGED <<out, segmentSize, segFiles, tmpExists, simulateMergeError, lockVars, readVars, histVars, torn, lbVars, flagVars, beforeCrash>>

(***************************************************************************)
(* The specifications.                                                     *)
(***************************************************************************)
\* The storage engine: Put, rollover, merge, Close and Open, with no Get in
\* flight.  What a Get would return in a state is GetValue.
Next ==
    \/ \E p \in Writers : PutCall(p)
    \/ \E p \in Writers : PutAcquire(p)
    \/ \E p \in Writers, key \in Keys : PutBody(p, key)
    \/ MergeStart
    \/ MergeAcquire
    \/ MergeFew
    \/ \E point \in MergeFailPoints : MergeFail(point)
    \/ \E ord \in MapOrders(DOMAIN MergeAllKeys(segFiles)) : MergeDone(ord)
    \/ WorkerExit
    \/ CloseBegin
    \/ CloseFinish
    \/ Reopen

Spec == Init /\ [][Next]_vars

\* The engine under concurrent clients: Get goroutines, the worker pool and
\* Close run beside Put and merge.  Every Put rolls the active log over.
ConcInit == InitWith({SmallSegment}, ConcPuts)

ConcNext ==
    \/ \E p \in Writers : PutCall(p)
    \/ \E p \in Writers : PutAcquire(p)
    \/ \E p \in Writers, key \in Keys : PutBody(p, key)
    \/ MergeStart
    \/ MergeAcquire
    \/ MergeFew
    \/ \E point \in MergeFailPoints : MergeFail(point)
    \/ \E ord \in MapOrders(DOMAIN MergeAllKeys(segFiles)) : MergeDone(ord)
    \/ \E r \in Readers : GetCall(r)
    \/ \E r \in Readers, key \in Keys : GetLookup(r, key)
    \/ \E r \in Readers : ReadSend(r)
    \/ \E r \in Readers : ReadShutdown(r)
    \/ WorkerTake
    \/ \E r \in Readers : WorkerServe(r)
    \/ WorkerExit
    \/ \E r \in Readers : GetReturn(r)
    \/ CloseBegin
    \/ CloseFinish

ConcSpec == ConcInit /\ [][ConcNext]_vars

\* The engine without Close, with clients that never stop reading, under
\* fair scheduling of the goroutines: each step of a goroutine that stays
\* possible is eventually taken.  No fairness is asked of the clients'
\* calls of Put and Get.
LiveInit == InitWith({SmallSegment}, LivePuts)

LiveNext ==
    \/ \E p \in Writers : PutCall(p)
    \/ \E p \in Writers : PutAcquire(p)
    \/ \E p \in Writers, key \in Keys : PutBody(p, key)
    \/ MergeStart
    \/ MergeAcquire
    \/ MergeFew
    \/ \E point \in MergeFailPoints : MergeFail(point)
    \/ \E ord \in MapOrders(DOMAIN MergeAllKeys(segFiles)) : MergeDone(ord)
    \/ \E r \in Readers : GetCall(r)
    \/ \E r \in Readers, key \in Keys : GetLookup(r, key)
    \/ \E r \in Readers : ReadSend(r)
    \/ WorkerTake
    \/ \E r \in Readers : WorkerServe(r)
    \/ \E r \in Readers : GetReturn(r)

\* A step of a merge pass under the lock.
MergePass ==
    /\ wHolder = "merge"
    /\ LockGranted
    /\ \/ MergeFew
       \/ \E point \in MergeFailPoints : MergeFail(point)
       \/ \E ord \in MapOrders(DOMAIN MergeAllKeys(segFiles)) : MergeDone(ord)

\* The next step of the goroutine inside Put: at most one is possible.
PutStep(p) == PutAcquire(p) \/ \E key \in Keys : PutBody(p, key)

\* The next step of the goroutine inside Get: at most one is possible.
GetStep(r) == (\E key \in Keys : GetLookup(r, key)) \/ ReadSend(r) \/ GetReturn(r)

Fairness ==
    /\ \A p \in Writers : WF_vars(PutStep(p))
    /\ WF_vars(MergeStart)
    /\ WF_vars(MergeAcquire)
    /\ WF_vars(MergePass)
    /\ \A r \in Readers : WF_vars(GetStep(r))
    /\ WF_vars(WorkerTake)
    /\ \A r \in Readers : WF_vars(WorkerServe(r))

LiveSpec == LiveInit /\ [][LiveNext]_vars /\ Fairness

\* Open on a directory that an earlier process left behind: an active log
\* and at most one segment file, each of whole records, each possibly
\* followed by the first bytes of a record whose write was cut short.
\* The file that Puts of the keys ks, in this order, write.
FileOfKeys(ks) ==
    [i \in 1..Len(ks) |-> Entry(ks[i], Value(ks[i], Cardinality({j \in 1..i : ks[j] = ks[i]})))]
Files == {FileOfKeys(ks) : ks \in UNION {[1..n -> Keys] : n \in 0..MaxFileLen}}
TornSizes == {0, 1, HeaderLen}

\* No engine is open on the directory: the earlier process has gone.
ClosedEngine ==
    /\ openErr = "nil"
    /\ beforeCrash = [k \in Keys |-> NoResult]
    /\ outOpen = FALSE
    /\ outOffset = 0
    /\ segmentSize = SmallSegment
    /\ segmentNum = 0
    /\ index = EmptyMap
    /\ segments = EmptyMap
    /\ tmpExists = FALSE
    /\ simulateMergeError = FALSE
    /\ wHolder = "none"
    /\ wpc = [p \in Writers |-> "idle"]
    /\ mergeNew = 0
    /\ mergeWait = 0
    /\ rpc = [r \in Readers |-> "idle"]
    /\ rkey = [r \in Readers |-> NoKey]
    /\ rreq = [r \in Readers |-> NoRequest]
    /\ rres = [r \in Readers |-> NoResult]
    /\ requests = <<>>
    /\ serving = {}
    /\ workersExited = NumWorkers
    /\ ctxClosed = TRUE
    /\ closePc = "done"
    /\ latest = [k \in Keys |-> 0]
    /\ putsLeft = 0
    /\ lastMerge = "none"
    /\ afterClose = [r \in Readers |-> FALSE]
    /\ BalancerIdle

OpenInit ==
    /\ out \in Files
    /\ segFiles \in {EmptyMap} \cup {(0 :> f) : f \in Files}
    /\ torn \in [{ActiveLog} \cup DOMAIN segFiles -> TornSizes]
    /\ ClosedEngine

OpenNext ==
    \/ Reopen
    \/ CloseBegin
    \/ WorkerExit
    \/ CloseFinish

OpenSpec == OpenInit /\ [][OpenNext]_vars

\* Open on a directory left by a session that rolled over ten times and
\* more: one or two sealed segments whose IDs have one and two digits, each
\* holding at least one record, and an active log.
DirIds == {8, 9, 10}
SegmentFiles == Files \ {<<>>}
Directories ==
    UNION {[ids -> SegmentFiles] : ids \in {d \in SUBSET DirIds : Cardinality(d) \in {1, 2}}}

DirInit ==
    /\ out \in Files
    /\ segFiles \in Directories
    /\ torn = [id \in {ActiveLog} \cup DOMAIN segFiles |-> 0]
    /\ ClosedEngine

DirNext ==
    \/ Reopen
    \/ CloseBegin
    \/ WorkerExit
    \/ CloseFinish

DirSpec == DirInit /\ [][DirNext]_vars

(***************************************************************************)
(* The balancer: probers and request handlers.                             *)
(***************************************************************************)
\* The pool entry the prober goroutine started for entry g works on: its
\* own with one loop variable per iteration, else the one shared variable,
\* which holds the last entry once the range loop of main has ended.
ProbeTarget(g) == IF loopVarPerIteration THEN g ELSE serversPool[Len(serversPool)]

\* What health(dst) returns.
HealthResults == {"ok", "fail"}

\* A tick: server.IsHealthy = true, then health(server.Address) is called.
ProbeTick(g) ==
    /\ prober[g] = "tick"
    /\ IsHealthy' = [IsHealthy EXCEPT ![ProbeTarget(g)] = TRUE]
    /\ prober' = [prober EXCEPT ![g] = "probe"]
    /\ UNCHANGED <<ConnCounter, traceEnabled, loopVarPerIteration, lastProbe, hpc, idx, minConns, selected, respStatus, respFrom, respBody, respHeader, fwdErr, upstream>>
    /\ UNCHANGED storeVars

\* health returns; its result is logged.
ProbeDone(g, result) ==
    /\ prober[g] = "probe"
    /\ lastProbe' = [lastProbe EXCEPT ![ProbeTarget(g)] = result]
    /\ prober' = [prober EXCEPT ![g] = "tick"]
    /\ UNCHANGED <<IsHealthy, ConnCounter, traceEnabled, loopVarPerIteration, hpc, idx, minConns, selected, respStatus, respFrom, respBody, respHeader, fwdErr, upstream>>
    /\ UNCHANGED storeVars

\* A request arrives: the handler calls getLeastConnectedServer.
RequestStart(q) ==
    /\ hpc[q] = "idle"
    /\ hpc' = [hpc EXCEPT ![q] = "select"]
    /\ idx' = [idx EXCEPT ![q] = 1]
    /\ minConns' = [minConns EXCEPT ![q] = SelectStart.minConns]
    /\ selected' = [selected EXCEPT ![q] = SelectStart.selected]
    /\ UNCHANGED <<IsHealthy, ConnCounter, traceEnabled, loopVarPerIteration, prober, lastProbe, respStatus, respFrom, respBody, respHeader, fwdErr, upstream>>
    /\ UNCHANGED storeVars

\* One iteration of the range loop: the read of IsHealthy and the atomic
\* load of ConnCounter.
SelectStep(q) ==
    /\ hpc[q] = "select"
    /\ idx[q] <= Len(serversPool)
    /\ LET st == SelectIteration(IsHealthy, ConnCounter, idx[q], [minConns |-> minConns[q], selected |-> selected[q]])
       IN  /\ minConns' = [minConns EXCEPT ![q] = st.minConns]
           /\ selected' = [selected EXCEPT ![q] = st.selected]
    /\ idx' = [idx EXCEPT ![q] = @ + 1]
    /\ UNCHANGED <<IsHealthy, ConnCounter, traceEnabled, loopVarPerIteration, prober, lastProbe, hpc, respStatus, respFrom, respBody, respHeader, fwdErr, upstream>>
    /\ UNCHANGED storeVars

\* getLeastConnectedServer returns: on nil the handler answers 503 "No
\* available backend server", else it calls forwardWithCounter.
SelectReturn(q) ==
    /\ hpc[q] = "select"
    /\ idx[q] > Len(serversPool)
    /\ idx' = [idx EXCEPT ![q] = 0]
    /\ minConns' = [minConns EXCEPT ![q] = 0]
    /\ IF selected[q] = Nil
       THEN /\ respStatus' = [respStatus EXCEPT ![q] = 503]
            /\ respBody' = [respBody EXCEPT ![q] = NoBackendBody]
            /\ respHeader' = [respHeader EXCEPT ![q] = NoBackendHeader]
            /\ hpc' = [hpc EXCEPT ![q] = "done"]
       ELSE /\ hpc' = [hpc EXCEPT ![q] = "inc"]
            /\ UNCHANGED <<respStatus, respBody, respHeader>>
    /\ UNCHANGED <<IsHealthy, ConnCounter, traceEnabled, loopVarPerIteration, prober, lastProbe, selected, respFrom, fwdErr, upstream>>
    /\ UNCHANGED storeVars

\* forwardWithCounter: atomic.AddInt32(&server.ConnCounter, 1), then forward sends the request upstream.
CounterInc(q) ==
    /\ hpc[q] = "inc"
    /\ ConnCounter' = [ConnCounter EXCEPT ![selected[q]] = @ + 1]
    /\ hpc' = [hpc EXCEPT ![q] = "fwd"]
    /\ UNCHANGED <<IsHealthy, traceEnabled, loopVarPerIteration, prober, lastProbe, idx, minConns, selected, respStatus, respFrom, respBody, respHeader, fwdErr, upstream>>
    /\ UNCHANGED storeVars

\* How the upstream request ends: with a response or a transport error.
Outcomes == {"ok", "error"}

\* A counter that is decremented only after a proxied response.
CounterAfterForwardOnSuccess(count, outcome) == IF outcome = "ok" THEN count - 1 ELSE count

\* The deferred atomic.AddInt32(&server.ConnCounter, -1) runs however forward returns.
CounterAfterForward(count, outcome) == count - 1

\* What the upstream call returns in each outcome: a plain 200 response, or a
\* refused connection.
UpstreamOf(outcome) ==
    IF outcome = "ok" THEN Response(200, EmptyMap, UpstreamBody) ELSE TransportError("refused")

\* The outcome of an upstream call that returned resp.
OutcomeOf(resp) == IF resp.err = "nil" THEN "ok" ELSE "error"

\* forward returns after the upstream call returned resp: the client gets
\* what forward left in the writer; then the deferred decrement runs.
ForwardReturns(q, resp) ==
    /\ hpc[q] = "fwd"
    /\ LET fwd == Forward(selected[q], NewWriter, resp, traceEnabled)
       IN  /\ respStatus' = [respStatus EXCEPT ![q] = fwd.writer.status]
           /\ respHeader' = [respHeader EXCEPT ![q] = fwd.writer.sent]
           /\ respFrom' = [respFrom EXCEPT ![q] = FromOf(fwd.writer.sent)]
           /\ respBody' = [respBody EXCEPT ![q] = fwd.writer.body]
           /\ fwdErr' = [fwdErr EXCEPT ![q] = fwd.err]
    /\ upstream' = [upstream EXCEPT ![q] = resp]
    /\ ConnCounter' = [ConnCounter EXCEPT ![selected[q]] = CounterAfterForward(@, OutcomeOf(resp))]
    /\ hpc' = [hpc EXCEPT ![q] = "done"]
    /\ selected' = [selected EXCEPT ![q] = Nil]
    /\ UNCHANGED <<IsHealthy, traceEnabled, loopVarPerIteration, prober, lastProbe, idx, minConns>>
    /\ UNCHANGED storeVars

\* forward returns: the upstream response is copied to the client, with
\* lb-from if trace is enabled, or 503 is written after a transport error;
\* then the deferred decrement runs.
ForwardDone(q, outcome) == ForwardReturns(q, UpstreamOf(outcome))

\* The storage engine while only the balancer runs.
StoreIdle == StoreInit({0}, 0) /\ simulateMergeError = FALSE

\* The first tick of a prober: no probe of its pool entry has completed.
FirstTick(g) == lastProbe[ProbeTarget(g)] = "none" /\ ProbeTick(g)

\* The balancer from its start, under any flag and either build, up to the
\* first probe of every backend.
LbInit ==
    /\ StoreIdle
    /\ LbStart
    /\ traceEnabled \in BOOLEAN
    /\ loopVarPerIteration \in BOOLEAN

LbNext ==
    \/ \E g \in Backends : FirstTick(g)
    \/ \E g \in Backends, result \in HealthResults : ProbeDone(g, result)
    \/ \E q \in Reqs : RequestStart(q)
    \/ \E q \in Reqs : SelectStep(q)
    \/ \E q \in Reqs : SelectReturn(q)
    \/ \E q \in Reqs : CounterInc(q)
    \/ \E q \in Reqs, outcome \in Outcomes : ForwardDone(q, outcome)

LbSpec == LbInit /\ [][LbNext]_vars

\* What the backends answer: the headers, statuses and transport errors.
UpstreamHeaders == {EmptyMap, ("X-Test" :> <<"ok">>) @@ ("Set-Cookie" :> <<"a", "b">>)}
UpstreamStatuses == {200, 418}
TransportErrors == {"refused", "deadline"}
UpstreamResults ==
    {TransportError(e) : e \in TransportErrors}
        \cup {Response(st, h, UpstreamBody) : st \in UpstreamStatuses, h \in UpstreamHeaders}

\* A request sent by a client that waits for each response.
SoloStart(q) == (\A o \in Reqs : hpc[o] \in {"idle", "done"}) /\ RequestStart(q)

\* The balancer under either value of the trace flag, in front of backends
\* that pass their first probe and then answer with any status and headers
\* or fail at the transport.
FwdInit ==
    /\ StoreIdle
    /\ LbStart
    /\ traceEnabled \in BOOLEAN
    /\ loopVarPerIteration = TRUE

FwdNext ==
    \/ \E g \in Backends : FirstTick(g)
    \/ \E g \in Backends : ProbeDone(g, "ok")
    \/ \E q \in Reqs : SoloStart(q)
    \/ \E q \in Reqs : SelectStep(q)
    \/ \E q \in Reqs : SelectReturn(q)
    \/ \E q \in Reqs : CounterInc(q)
    \/ \E q \in Reqs, resp \in UpstreamResults : ForwardReturns(q, resp)

FwdSpec == FwdInit /\ [][FwdNext]_vars

\* The command lines: without the flag, and with --timeout-sec=n.
TimeoutArgs == {1, 3, 10}
CommandLines == {<<>>} \cup {<<n>> : n \in TimeoutArgs}

\* flag.Parse() in main: *timeoutSec takes the value on the command line.
FlagParse ==
    /\ mainPc = "init"
    /\ timeoutSec' = IF cmdline = <<>> THEN timeoutSec ELSE cmdline[1]
    /\ mainPc' = "serving"
    /\ UNCHANGED <<cmdline, timeout, lbVars>>
    /\ UNCHANGED <<dbVars, lockVars, readVars, poolVars, histVars, torn, openErr, beforeCrash>>

\* The deadlines of context.WithTimeout in health and in forward.
HealthDeadline == timeout
ForwardDeadline == timeout

\* main has started the probers and the frontend, which it does after
\* flag.Parse.
Started == mainPc = "serving"

\* The balancer from the start of the process, under any command line.
FlagInit ==
    /\ StoreIdle
    /\ PoolAsDeclared
    /\ HandlersIdle
    /\ traceEnabled = FALSE
    /\ loopVarPerIteration = TRUE
    /\ cmdline \in CommandLines
    /\ PackageInit

FlagNext ==
    \/ FlagParse
    \/ \E g \in Backends : Started /\ FirstTick(g)
    \/ \E g \in Backends, result \in HealthResults : Started /\ ProbeDone(g, result)
    \/ \E q \in Reqs : Started /\ SoloStart(q)
    \/ \E q \in Reqs : Started /\ SelectStep(q)
    \/ \E q \in Reqs : Started /\ SelectReturn(q)
    \/ \E q \in Reqs : Started /\ CounterInc(q)
    \/ \E q \in Reqs, outcome \in Outcomes : Started /\ ForwardDone(q, outcome)

FlagSpec == FlagInit /\ [][FlagNext]_vars

\* getLeastConnectedServer over any pool: every health flag and every
\* counter up to MaxConns, with no tick and no forwarding meanwhile.
PoolInit ==
    /\ StoreIdle
    /\ IsHealthy \in [Backends -> BOOLEAN]
    /\ ConnCounter \in [Backends -> 0..MaxConns]
    /\ HandlersIdle
    /\ DefaultFlags
    /\ traceEnabled = FALSE
    /\ loopVarPerIteration = TRUE

PoolNext ==
    \/ \E q \in Reqs : RequestStart(q)
    \/ \E q \in Reqs : SelectStep(q)
    \/ \E q \in Reqs : SelectReturn(q)

PoolSpec == PoolInit /\ [][PoolNext]_vars

\* Every backend has been marked healthy and its latest probe returned 200.
AllHealthy == \A b \in Backends : IsHealthy[b] /\ lastProbe[b] = "ok"

\* No request is between its arrival and its response.
NoneInFlight == \A q \in Reqs : hpc[q] \in {"idle", "done"}

\* A request sent once all three backends are healthy, by a client that
\* waits for each response before it sends the next request.
SequentialStart(q) == AllHealthy /\ NoneInFlight /\ RequestStart(q)

\* A request sent once all three backends are healthy, by a client that
\* sends its requests concurrently.
ConcurrentStart(q) == AllHealthy /\ RequestStart(q)

\* The balancer with tracing on in front of three backends that answer every
\* probe and every request.
TraceInit ==
    /\ StoreIdle
    /\ LbStart
    /\ traceEnabled = TRUE
    /\ loopVarPerIteration \in BOOLEAN

SeqNext ==
    \/ \E g \in Backends : FirstTick(g)
    \/ \E g \in Backends : ProbeDone(g, "ok")
    \/ \E q \in Reqs : SequentialStart(q)
    \/ \E q \in Reqs : SelectStep(q)
    \/ \E q \in Reqs : SelectReturn(q)
    \/ \E q \in Reqs : CounterInc(q)
    \/ \E q \in Reqs : ForwardDone(q, "ok")

SeqSpec == TraceInit /\ [][SeqNext]_vars

DistNext ==
    \/ \E g \in Backends : FirstTick(g)
    \/ \E g \in Backends : ProbeDone(g, "ok")
    \/ \E q \in Reqs : ConcurrentStart(q)
    \/ \E q \in Reqs : SelectStep(q)
    \/ \E q \in Reqs : SelectReturn(q)
    \/ \E q \in Reqs : CounterInc(q)
    \/ \E q \in Reqs : ForwardDone(q, "ok")

DistSpec == TraceInit /\ [][DistNext]_vars

\* One session of the engine with no injected I/O failure: Put, rollover
\* and the merge passes, from Open to before Close.
SessionNext ==
    \/ \E p \in Writers : PutCall(p)
    \/ \E p \in Writers : PutAcquire(p)
    \/ \E p \in Writers, key \in Keys : PutBody(p, key)
    \/ MergeStart
    \/ MergeAcquire
    \/ MergeFew
    \/ \E ord \in MapOrders(DOMAIN MergeAllKeys(segFiles)) : MergeDone(ord)

SessionSpec == Init /\ [][SessionNext]_vars

\* The process dies inside a merge pass, after os.Rename(tempFile,
\* mergedSegmentPath) and before the first os.Remove of an input: the merged
\* segment and the inputs are all in the directory, and every goroutine and
\* the Db are gone.
MergeCrash(ord) ==
    /\ wHolder = "merge"
    /\ LockGranted
    /\ Cardinality(DOMAIN segFiles) >= 2
    /\ beforeCrash' = [k \in Keys |-> GetValue(k)]
    /\ segFiles' = (segmentNum :> MergedFile(MergeAllKeys(segFiles), ord)) @@ segFiles
    /\ tmpExists' = FALSE
    /\ lastMerge' = "crashed"
    /\ outOpen' = FALSE
    /\ outOffset' = 0
    /\ segmentNum' = 0
    /\ index' = EmptyMap
    /\ segments' = EmptyMap
    /\ wHolder' = "none"
    /\ wpc' = [p \in Writers |-> "idle"]
    /\ mergeNew' = 0
    /\ mergeWait' = 0
    /\ putsLeft' = 0
    /\ workersExited' = NumWorkers
    /\ ctxClosed' = TRUE
    /\ closePc' = "done"
    /\ UNCHANGED <<out, segmentSize, simulateMergeError, readVars, latest>>
    /\ UNCHANGED <<torn, openErr, lbVars, flagVars>>

\* One session that may die inside a merge pass, and the Open that follows.
CrashNext ==
    \/ \E p \in Writers : PutCall(p)
    \/ \E p \in Writers : PutAcquire(p)
    \/ \E p \in Writers, key \in Keys : PutBody(p, key)
    \/ MergeStart
    \/ MergeAcquire
    \/ MergeFew
    \/ \E ord \in MapOrders(DOMAIN MergeAllKeys(segFiles)) : MergeDone(ord)
    \/ \E ord \in MapOrders(DOMAIN MergeAllKeys(segFiles)) : MergeCrash(ord)
    \/ Reopen

CrashSpec == Init /\ [][CrashNext]_vars

(***************************************************************************)
(* Put under I/O failures: a Write that returns an error after writing part *)
(* of the record, and a rollover that fails at one of its steps.           *)
(***************************************************************************)
\* Put calls in one behaviour of FaultSpec.
FaultPuts == 3

\* db.out.Write(encoded) returns n < len(encoded) and an error: the file has
\* grown by n bytes and Put changes no field.
WriteFails(db, key, value, n) ==
    IF n = 0 THEN db ELSE [db EXCEPT !.out = Append(db.out, Cut(key, value, n))]

\* The steps of createNewSegment that return an error.
RolloverFailPoints == {"close", "rename", "open"}

\* createNewSegment returns the error of db.out.Close() or of os.Rename
\* with no field changed, or the error of os.OpenFile after the rename, the
\* index move and segmentNum++, before db.outOffset = 0 and the merge.
CreateNewSegmentFails(db, point) ==
    IF point = "open"
    THEN [CreateNewSegment(db) EXCEPT !.outOffset = db.outOffset, !.spawned = db.spawned]
    ELSE db

\* What the end of every Put does: the deferred Unlock.
PutUnlock(p) ==
    /\ wHolder' = "none"
    /\ wpc' = [wpc EXCEPT ![p] = "idle"]
    /\ rpc' = AdmitReaders
    /\ UNCHANGED <<segmentSize, tmpExists, simulateMergeError, mergeWait>>
    /\ UNCHANGED <<rkey, rreq, rres, requests, serving, afterClose, poolVars, putsLeft, lastMerge>>
    /\ UNCHANGED notEngine

\* Put(key, NextValue(key)) whose Write fails after n bytes; a rollover that
\* was due has succeeded before it.
PutWriteFails(p, key, n) ==
    /\ wHolder = p
    /\ LockGranted
    /\ outOpen
    /\ LET value == NextValue(key)
           rolled == IF NeedsRollover(Db, segmentSize, EncodedLen(key, value)) THEN CreateNewSegment(Db) ELSE Db
           db == WriteFails(rolled, key, value, n)
       IN  /\ out' = db.out
           /\ outOffset' = db.outOffset
           /\ segmentNum' = db.segmentNum
           /\ index' = db.index
           /\ segments' = db.segments
           /\ segFiles' = db.segFiles
           /\ mergeNew' = mergeNew + db.spawned
    /\ UNCHANGED <<outOpen, latest>>
    /\ PutUnlock(p)

\* Put(key, NextValue(key)) whose rollover fails at point: db.out is closed
\* from then on and Put returns the error without writing.
PutRolloverFails(p, key, point) ==
    /\ wHolder = p
    /\ LockGranted
    /\ outOpen
    /\ NeedsRollover(Db, segmentSize, EncodedLen(key, NextValue(key)))
    /\ LET db == CreateNewSegmentFails(Db, point)
       IN  /\ out' = db.out
           /\ outOffset' = db.outOffset
           /\ segmentNum' = db.segmentNum
           /\ index' = db.index
           /\ segments' = db.segments
           /\ segFiles' = db.segFiles
           /\ mergeNew' = mergeNew + db.spawned
    /\ outOpen' = FALSE
    /\ UNCHANGED latest
    /\ PutUnlock(p)

\* The decode loop of a merge pass reads every segment file to its end: no
\* cut record lies before a whole one.
Decodable ==
    \A id \in DOMAIN segFiles : \A i \in 1..Len(segFiles[id]) :
        IsCut(segFiles[id][i]) => i = Len(segFiles[id])

FaultInit == InitWith({SmallSegment, LargeSegment}, FaultPuts)

\* One session in which a Write or a rollover may fail.  A pass whose decode
\* loop meets bytes that are no record fails at "decode".
FaultNext ==
    \/ \E p \in Writers : PutCall(p)
    \/ \E p \in Writers : PutAcquire(p)
    \/ \E p \in Writers, key \in Keys : PutBody(p, key)
    \/ \E p \in Writers, key \in Keys, n \in TornSizes : PutWriteFails(p, key, n)
    \/ \E p \in Writers, key \in Keys, point \in RolloverFailPoints : PutRolloverFails(p, key, point)
    \/ MergeStart
    \/ MergeAcquire
    \/ MergeFew
    \/ \E point \in MergeFailPoints : MergeFail(point)
    \/ Decodable /\ \E ord \in MapOrders(DOMAIN MergeAllKeys(segFiles)) : MergeDone(ord)

FaultSpec == FaultInit /\ [][FaultNext]_vars

(***************************************************************************)
(* Properties.                                                             *)
(***************************************************************************)
Ok(value) == Result("nil", value)

\* The value of the latest successful Put of key, and every value Put for it.
LatestValue(key) == Value(key, latest[key])
Written(key) == {Value(key, n) : n \in 1..latest[key]}

\* Get of every key that was Put returns the value of its latest Put.
AllLatest == \A k \in Keys : latest[k] > 0 => GetValue(k) = Ok(LatestValue(k))

\* The keys that have a record in a file, and in one of a set of files.
FileKeys(file) == {file[i].key : i \in 1..Len(file)}
FilesKeys(files) == UNION {FileKeys(files[id]) : id \in DOMAIN files}

\* The step of a merge pass that commits, of one that ends without
\* committing, and of Open on the directory of a closed engine.
MergeCommitStep == wHolder = "merge" /\ segmentNum' = segmentNum + 1
MergeAbortStep ==
    \/ wHolder = "merge" /\ wHolder' = "none" /\ segmentNum' = segmentNum
    \/ simulateMergeError /\ mergeNew' = mergeNew - 1
OpenStep == closePc = "done" /\ closePc' = "none"

\* No Put is in flight and every merge pass that was started has run.
Settled == Quiescent

\* C1: in one session, across any rollovers and merge passes, Get of a key
\* returns the value of the latest successful Put of that key.
C1_GetReturnsLatestPut == AllLatest

\* C2: Close followed by Open on the same directory keeps every key at the
\* value of its latest successful Put, also when the key has an older
\* record in a sealed segment and a newer one in the active log.
C2_ReopenReturnsLatest == [][(OpenStep /\ AllLatest) => AllLatest']_vars

\* The most recently written value of key among the segment files: in the
\* file with the highest ID that holds the key, the last record of the key.
NewestInFiles(files, key) ==
    LET top == MaxOf({id \in DOMAIN files : key \in FileKeys(files[id])})
        last == MaxOf({i \in 1..Len(files[top]) : files[top][i].key = key})
    IN  files[top][last].value

\* C4: a merge pass writes exactly one record per key of its input segments,
\* holding the most recently written value of the key among the inputs.
C4_MergeKeepsNewest ==
    [][MergeCommitStep =>
        LET merged == segFiles'[segmentNum]
        IN  /\ FileKeys(merged) = FilesKeys(segFiles)
            /\ \A i, j \in 1..Len(merged) : merged[i].key = merged[j].key => i = j
            /\ \A i \in 1..Len(merged) : merged[i].value = NewestInFiles(segFiles, merged[i].key)]_vars

\* C5: a merge pass that fails or is aborted before the rename leaves the
\* segment files, the index and the value Get returns for every key as they
\* were, and leaves no merge.tmp behind.
C5_AbortedMergeChangesNothing ==
    [][MergeAbortStep =>
        /\ segFiles' = segFiles
        /\ ~tmpExists'
        /\ index' = index
        /\ segments' = segments
        /\ out' = out
        /\ \A k \in Keys : GetValue(k)' = GetValue(k)]_vars

\* A pass has failed at an I/O step with two segment files in the directory
\* and a key to read.
C5_Witness ==
    /\ lastMerge = "failed"
    /\ Cardinality(DOMAIN segFiles) >= 2
    /\ \E k \in Keys : GetValue(k).err = "nil"

\* C6: once the Puts have stopped and every merge pass has run, with no
\* failure injected, at most one segment file remains and every key that was
\* Put reads as its last written value.
C6_MergeConverges ==
    (Settled /\ ~simulateMergeError) => (Cardinality(DOMAIN segFiles) <= 1 /\ AllLatest)

\* C3: with Gets and Puts running concurrently (rollovers and merges
\* included, no Close), a Get of a key that has been Put returns without
\* error a value that was Put for that key.
C3_ConcurrentGetReturnsWrittenValue ==
    \A r \in Readers :
        (rpc[r] = "ret" /\ closePc = "none" /\ latest[rkey[r]] > 0) =>
            (rres[r].err = "nil" /\ rres[r].value \in Written(rkey[r]))

\* A Get returns a value after a merge pass committed, while a writer that
\* announced itself waits for the Get to release the lock.
C3_Witness ==
    \E r \in Readers :
        /\ rpc[r] = "ret"
        /\ closePc = "none"
        /\ rres[r].err = "nil"
        /\ lastMerge = "merged"
        /\ wHolder # "none"

\* C7: a Get whose request is queued or being served when Close runs still
\* returns: a queued request always has a worker left that can take it.
C7_InflightGetsReturn ==
    \A r \in Readers : rpc[r] = "sent" => (r \in serving \/ workersExited < NumWorkers)

\* C8: a Get called after Close began, for a key that is in the index, fails
\* with the shutting-down error: its request is never queued and it returns
\* no value.
C8_GetAfterCloseFails ==
    \A r \in Readers :
        afterClose[r] =>
            /\ rpc[r] # "sent"
            /\ (rpc[r] = "ret" /\ rres[r].err # "notfound") => rres[r].err = "shutdown"

\* C9: when Close has returned, every worker goroutine has exited and the
\* active log's file handle is closed.
C9_CloseWaitsForWorkers ==
    closePc = "done" => (workersExited = NumWorkers /\ serving = {} /\ ~outOpen)

\* Close has returned after a worker served a Get that was called while
\* Close was waiting.
C9_Witness ==
    /\ closePc = "done"
    /\ \E r \in Readers : rpc[r] = "ret" /\ afterClose[r] /\ rres[r].err = "nil"

\* Some goroutine is inside Put, Get or MergeSegments.
InFlight ==
    \/ \E p \in Writers : wpc[p] # "idle"
    \/ \E r \in Readers : rpc[r] # "idle"
    \/ mergeNew > 0
    \/ mergeWait > 0
    \/ wHolder # "none"

\* A step of a goroutine that is inside Put, Get or MergeSegments.
Progress ==
    \/ \E p \in Writers : PutStep(p)
    \/ MergeStart
    \/ MergeAcquire
    \/ MergePass
    \/ \E r \in Readers : GetStep(r)
    \/ WorkerTake
    \/ \E r \in Readers : WorkerServe(r)

\* C10: without Close and under fair scheduling, every Put that was called
\* gets the engine lock and returns, however many Gets run beside it, and
\* whenever a goroutine is inside Put, Get or a merge pass one of them can
\* take a step.
C10_PutNotStarved ==
    /\ \A p \in Writers : (wpc[p] = "lock") ~> (wpc[p] = "idle")
    /\ [](InFlight => ENABLED Progress)

\* A Put has announced itself while both clients hold the read lock.
C10_Witness ==
    /\ \E p \in Writers : wHolder = p
    /\ \A r \in Readers : rpc[r] \in {"read", "sent"}

\* The bytes of every record stored in the directory.
RECURSIVE StoredBytes(_, _)
StoredBytes(files, ids) ==
    IF ids = {} THEN 0
    ELSE LET id == CHOOSE x \in ids : TRUE
         IN  FileSize(files[id]) + StoredBytes(files, ids \ {id})

\* The step of a Put of key that succeeds.
PutSucceeds(key) == latest'[key] = latest[key] + 1

\* C11: on an open engine Size() is the size of the active log plus the
\* sizes of all segment files, and across a successful Put (a merge pass
\* cannot complete inside it) Size() grows strictly, also when the Put rolls
\* the active log over.
C11_SizeGrowsOnPut ==
    /\ [](outOpen => Size = Result("nil", FileSize(out) + StoredBytes(segFiles, DOMAIN segFiles)))
    /\ [][\A k \in Keys : PutSucceeds(k) =>
            LET after == SizeOf(outOpen', out', segFiles')
            IN  Size.err = "nil" /\ after.err = "nil" /\ after.value > Size.value]_vars

\* A Put has rolled a non-empty active log over: the record it appended is
\* alone in the active log and Size counts the sealed segment as well.
C11_Witness ==
    /\ Len(out) = 1
    /\ \E id \in DOMAIN segFiles : segFiles[id] # <<>>
    /\ Size.err = "nil"
    /\ Size.value > FileSize(out)

\* C12: a successful Put rolls the active log over, before it appends, exactly
\* when segmentSize > 0 and outOffset + L > segmentSize, L the encoded length
\* of its record; with segmentSize = 0 there is never a segment file nor a
\* merge goroutine.
C12_RolloverExactlyWhenFull ==
    /\ [][\A k \in Keys : PutSucceeds(k) =>
            LET L == EncodedLen(k, NextValue(k))
                rolled == segmentNum' = segmentNum + 1
            IN  /\ rolled <=> (segmentSize > 0 /\ outOffset + L > segmentSize)
                /\ rolled => /\ segFiles' = (segmentNum :> out) @@ segFiles
                             /\ out' = <<Entry(k, NextValue(k))>>
                             /\ mergeNew' = mergeNew + 1
                /\ ~rolled => /\ segFiles' = segFiles
                              /\ out' = Append(out, Entry(k, NextValue(k)))
                              /\ mergeNew' = mergeNew]_vars
    /\ [](segmentSize = 0 =>
            (segFiles = EmptyMap /\ mergeNew = 0 /\ mergeWait = 0 /\ wHolder # "merge"))

\* With a segmentSize that holds two records, a Put has appended a second
\* record to the active log after an earlier Put rolled over.
C12_Witness ==
    /\ segmentSize = LargeSegment
    /\ Len(out) = 2
    /\ DOMAIN segFiles # {}

\* C13: a Get returns the not-found error exactly when no Put of its key has
\* succeeded in this session, across rollovers and merge passes, and then it
\* has sent no read request to the pool.
C13_NotFoundOnlyForUnwrittenKey ==
    \A r \in Readers :
        rpc[r] = "ret" =>
            /\ (rres[r].err = "notfound") <=> (latest[rkey[r]] = 0)
            /\ (rres[r].err = "notfound") =>
                   (rreq[r] = NoRequest /\ r \notin serving /\ \A i \in 1..Len(requests) : requests[i] # r)

\* A Get returns not-found for a key never Put, after the other key has
\* been Put and a merge pass has committed.
C13_Witness ==
    \E r \in Readers :
        /\ rpc[r] = "ret"
        /\ rres[r].err = "notfound"
        /\ lastMerge = "merged"
        /\ \E k \in Keys : latest[k] > 0

\* Some file of the directory ends in the middle of a record.
AnyTorn == \E id \in DOMAIN torn : torn[id] > 0

\* A call of Open on the directory of a closed engine that returns.
OpenReturns == closePc = "done" /\ (closePc' = "none" \/ openErr' # openErr)

HealthyAt == {i \in 1..Len(serversPool) : IsHealthy[serversPool[i]]}

\* The healthy entry with the fewest connections, the first of the pool
\* among equals; Nil when no entry is healthy.
LeastConnected ==
    IF HealthyAt = {}
    THEN Nil
    ELSE serversPool[CHOOSE i \in HealthyAt : \A j \in HealthyAt :
            \/ ConnCounter[serversPool[i]] < ConnCounter[serversPool[j]]
            \/ ConnCounter[serversPool[i]] = ConnCounter[serversPool[j]] /\ i <= j]

\* getLeastConnectedServer has run its loop to the end for request q.
SelectionMade(q) ==
    \/ hpc[q] = "select" /\ idx[q] > Len(serversPool)
    \/ hpc[q] = "inc"
    \/ hpc[q] = "done" /\ respBody[q] = NoBackendBody

\* C15: getLeastConnectedServer returns the healthy entry with the least
\* in-flight count, the first in pool order among equals, and returns nil
\* exactly when no entry is healthy.
C15_SelectsFirstLeastConnected ==
    \A q \in Reqs : SelectionMade(q) =>
        /\ selected[q] = LeastConnected
        /\ selected[q] = Nil <=> \A b \in Backends : ~IsHealthy[b]

\* Selection has returned the second entry of a pool whose first entry is
\* healthy and busier, and whose third entry is healthy and as busy as the
\* second.
C15_Witness ==
    \E q \in Reqs :
        /\ hpc[q] = "inc"
        /\ selected[q] = serversPool[2]
        /\ \A b \in Backends : IsHealthy[b]
        /\ ConnCounter[serversPool[1]] > ConnCounter[serversPool[2]]
        /\ ConnCounter[serversPool[3]] = ConnCounter[serversPool[2]]

\* The requests that forwardWithCounter is proxying to backend b: past the
\* increment, before the deferred decrement.
Proxied(b) == {q \in Reqs : hpc[q] = "fwd" /\ selected[q] = b}

\* C16: the in-flight count of a backend equals the number of requests being
\* proxied to it and is never negative; it is back at its value when the
\* request completes, on the success path and after a transport error.
C16_CounterCountsProxiedRequests ==
    \A b \in Backends :
        /\ ConnCounter[b] = Cardinality(Proxied(b))
        /\ ConnCounter[b] >= 0

\* One request has been proxied, another has ended in a transport error, and
\* every counter is back at zero.
C16_Witness ==
    /\ \E q \in Reqs : hpc[q] = "done" /\ respStatus[q] = 503 /\ respBody[q] = NoBody
    /\ \E q \in Reqs : hpc[q] = "done" /\ respStatus[q] = 200
    /\ \A b \in Backends : ConnCounter[b] = 0

\* Request q has been given backend b by getLeastConnectedServer.
Dispatched(q, b) == hpc[q] \in {"inc", "fwd"} /\ selected[q] = b

\* C17: a backend is healthy only when its most recent probe returned 200:
\* not before its first probe has completed and not after a failed probe;
\* no request is dispatched to a backend whose latest probe failed.
C17_HealthyOnlyAfterSuccessfulProbe ==
    \A b \in Backends :
        /\ IsHealthy[b] => lastProbe[b] = "ok"
        /\ \A q \in Reqs : Dispatched(q, b) => lastProbe[b] # "fail"

\* The least counter among the healthy entries of the pool.
MinHealthyConns ==
    CHOOSE n \in {ConnCounter[b] : b \in {h \in Backends : IsHealthy[h]}} :
        \A b \in Backends : IsHealthy[b] => n <= ConnCounter[b]

\* The step in which getLeastConnectedServer returns backend b to request q.
SelectionReturns(q, b) == hpc[q] = "select" /\ hpc'[q] = "inc" /\ selected[q] = b

\* C18: under any interleaving of concurrent requests, when selection
\* returns, the chosen entry is healthy and its in-flight count is at most
\* one more than the least count among the healthy entries.
C18_SelectionWithinOneOfMinimum ==
    [][\A q \in Reqs, b \in Backends : SelectionReturns(q, b) =>
            /\ IsHealthy[b]
            /\ ConnCounter[b] <= MinHealthyConns + 1]_vars

\* The lb-from values of the responses.
FromValues == {respFrom[q] : q \in Reqs} \ {Nil}

\* Every request has been answered.
AllAnswered == \A q \in Reqs : hpc[q] = "done"

\* C19: with three healthy backends and tracing on, sequential requests
\* are answered with at least two distinct lb-from values.
C19_SequentialRequestsSpread == AllAnswered => Cardinality(FromValues) >= 2

\* C20: with three healthy backends and tracing on, concurrent requests all
\* succeed and are answered with at least two distinct lb-from values,
\* whatever the interleaving.
C20_ConcurrentRequestsSpread ==
    AllAnswered =>
        /\ \A q \in Reqs : respStatus[q] = 200
        /\ Cardinality(FromValues) >= 2

\* No entry of the pool is healthy.
NoneHealthy == \A b \in Backends : ~IsHealthy[b]

\* The step in which getLeastConnectedServer returns to the handler of q.
SelectionEnds(q) == hpc[q] = "select" /\ hpc'[q] # "select"

FailedUpstream(q) == hpc[q] = "done" /\ upstream[q].err # "nil"
AnsweredUpstream(q) == hpc[q] = "done" /\ upstream[q].err = "nil" /\ upstream[q] # NoUpstream

\* C22: when the upstream request fails with a transport error, forward
\* writes status 503 and returns the error; the response carries no
\* upstream header and no lb-from header.
C22_TransportErrorAnswers503 ==
    \A q \in Reqs : FailedUpstream(q) =>
        /\ respStatus[q] = 503
        /\ fwdErr[q] = upstream[q].err
        /\ respHeader[q] = EmptyMap
        /\ respFrom[q] = Nil

\* With tracing on, a request has been answered 503 after its upstream call
\* ran into the deadline.
C22_Witness ==
    /\ traceEnabled
    /\ \E q \in Reqs : FailedUpstream(q) /\ fwdErr[q] = "deadline" /\ respStatus[q] = 503

\* The step in which forward returns for request q.
ForwardEnds(q) == hpc[q] = "fwd" /\ hpc'[q] = "done"

RequestedTimeout == IF cmdline = <<>> THEN DefaultTimeoutSec ELSE cmdline[1]

\* C24: the deadline of health probes and of forwarded requests is the
\* number of seconds given by --timeout-sec, and 3 seconds only when the
\* flag is not given.
C24_DeadlineFollowsFlag ==
    /\ (\E g \in Backends : prober[g] = "probe") => HealthDeadline = RequestedTimeout
    /\ (\E q \in Reqs : hpc[q] = "fwd") => ForwardDeadline = RequestedTimeout

\* Open has returned an engine that no Put has touched.
JustOpened == outOpen /\ closePc = "none" /\ openErr = "nil"

\* The segment files that hold a record of key.
HoldersOf(key) == {id \in DOMAIN segFiles : key \in FileKeys(segFiles[id])}

\* C25: Open scans the sealed segments oldest to newest by integer ID, so a
\* key present in several segments is located in the segment with the
\* highest ID, also when the IDs differ in their number of digits.
C25_OpenLocatesKeyInNewestSegment ==
    JustOpened =>
        \A k \in Keys : HoldersOf(k) # {} =>
            k \in DOMAIN segments /\ segments[k].file = MaxOf(HoldersOf(k))

\* C27: after Open the next segment ID is the highest ID among the segment
\* files plus one, whatever the order of the scan, and 0 when the directory
\* holds no segment.
C27_NextSegmentIdAfterOpen ==
    JustOpened =>
        segmentNum = IF DOMAIN segFiles = {} THEN 0 ELSE MaxOf(DOMAIN segFiles) + 1

\* Open has returned on a directory whose segment with the highest ID was
\* scanned first.
C27_Witness ==
    /\ JustOpened
    /\ DOMAIN segFiles = {9, 10}
    /\ SortStrings(DOMAIN segFiles) = <<10, 9>>
    /\ segmentNum = 11

\* Open has returned on the directory the dead process left.
OpenedAfterCrash == lastMerge = "crashed" /\ closePc = "none"

\* C26: when the process dies after a merge pass renamed merge.tmp and
\* before it removed the input segments, the next Open succeeds and every
\* key returns the value it returned before the crash.
C26_RecoveryAfterMergeCrash ==
    /\ lastMerge = "crashed" => openErr = "nil"
    /\ OpenedAfterCrash => outOpen /\ \A k \in Keys : GetValue(k) = beforeCrash[k]

\* A Put step that rolls the active log over.
RolloverStep == (\E k \in Keys : PutSucceeds(k)) /\ segmentNum' = segmentNum + 1

\* C28: a rollover that seals the active log into segment N maps every key
\* of the active-log index to (segment N, the same offset), leaves no
\* active-log index entry, keeps the mappings of the other keys, leaves an
\* empty active log with offset 0, makes N + 1 the next segment ID and
\* schedules one merge pass.
C28_RolloverFrame ==
    [][RolloverStep =>
        LET N == segmentNum
            sealed == CreateNewSegment(Db)
        IN  /\ \A k \in DOMAIN index : sealed.segments[k] = [file |-> N, offset |-> index[k]]
            /\ sealed.index = EmptyMap
            /\ \A k \in DOMAIN segments \ DOMAIN index :
                    k \in DOMAIN sealed.segments /\ sealed.segments[k] = segments[k]
            /\ DOMAIN sealed.segments = DOMAIN index \cup DOMAIN segments
            /\ sealed.segFiles = (N :> out) @@ segFiles
            /\ sealed.out = <<>> /\ sealed.outOffset = 0
            /\ sealed.segmentNum = N + 1
            /\ sealed.spawned = 1
            /\ segFiles' = sealed.segFiles
            /\ segmentNum' = sealed.segmentNum
            /\ mergeNew' = mergeNew + 1
            /\ \A k \in DOMAIN sealed.segments \ DOMAIN index' :
                    k \in DOMAIN segments' /\ segments'[k] = sealed.segments[k]]_vars

\* Before any merge, a key is still mapped into a segment that was sealed
\* before the latest rollover.
C28_Witness ==
    /\ lastMerge = "none"
    /\ \E k \in DOMAIN segments : segments[k].file + 1 < segmentNum
    /\ Len(out) = 1

\* The step in which a merge pass returns, committed or not.
MergePassEnds == wHolder = "merge" /\ wHolder' = "none"

\* C29: a merge pass leaves the active log, activeOffset and the index
\* entries into the active log unchanged and repoints only keys located in
\* its input segments; a key whose latest record is in the active log
\* returns that value after the merge.
C29_MergeLeavesActiveLog ==
    /\ [][MergePassEnds =>
            /\ out' = out
            /\ outOffset' = outOffset
            /\ index' = index
            /\ DOMAIN segments' = DOMAIN segments
            /\ \A k \in DOMAIN segments : segments'[k] # segments[k] =>
                    /\ segments[k].file \in DOMAIN segFiles
                    /\ segments'[k].file \in DOMAIN segFiles' \ DOMAIN segFiles]_vars
    /\ [](lastMerge = "merged" =>
            \A k \in DOMAIN index : GetValue(k) = Ok(LatestValue(k)))

\* A pass has merged segments that hold an older record of a key whose
\* latest record is in the active log.
C29_Witness ==
    /\ lastMerge = "merged"
    /\ \E k \in DOMAIN index : k \in FilesKeys(segFiles) /\ latest[k] > 1
    /\ DOMAIN segments # {}

\* A Put holds the writer mutex, between its Lock and its Unlock.
PutInside == \E p \in Writers : wHolder = p

\* A merge pass holds the writer mutex, from before its segment enumeration
\* to after its removal of the inputs.
MergeInside == wHolder = "merge"

\* C30: merge passes scheduled by several rollovers run one at a time and
\* never together with a Put or a rollover, and once all of them have run
\* every key returns its latest value.
C30_MergePassesSerialised ==
    /\ ~(PutInside /\ MergeInside)
    /\ (Settled /\ lastMerge \in {"merged", "few"}) => AllLatest

\* The segment files that a step removes from the directory, and the ones it
\* adds.
Deleted == DOMAIN segFiles \ DOMAIN segFiles'
Created == DOMAIN segFiles' \ DOMAIN segFiles

\* C31: a segment file is deleted only by a merge pass that has renamed
\* merge.tmp to a merged segment holding every key of the deleted file; no
\* other step (Put, rollover, Close, Open, a failed pass) deletes a sealed
\* segment or changes its contents.
C31_SegmentsDeletedOnlyByMerge ==
    [][/\ \A id \in DOMAIN segFiles \cap DOMAIN segFiles' : segFiles'[id] = segFiles[id]
       /\ Deleted # {} =>
            /\ wHolder = "merge" /\ lastMerge' = "merged"
            /\ \E new \in Created :
                    \A id \in Deleted : FileKeys(segFiles[id]) \subseteq FileKeys(segFiles'[new])]_vars

\* A pass has replaced segments that held different keys by one merged
\* segment, and the engine has since been closed and opened again.
C31_Witness ==
    /\ lastMerge = "merged"
    /\ DOMAIN segFiles = {2}
    /\ FileKeys(segFiles[2]) = Keys
    /\ closePc = "none" /\ outOpen
    /\ putsLeft < MaxPuts - 2

\* No key has both an active-log index entry and a segment mapping.
MapsDisjoint == DOMAIN index \cap DOMAIN segments = {}

\* The value of the last record of key in the active log.
LastInActiveLog(key) == out[MaxOf({i \in 1..Len(out) : out[i].key = key})].value

\* C32: in every state of an open engine no key has both an active-log
\* index entry and a segment mapping, and Get of a key that has a record in
\* the active log returns the value of its last record there: no segment
\* mapping shadows it.
C32_SegmentNeverShadowsActiveLog ==
    outOpen =>
        /\ MapsDisjoint
        /\ \A k \in FileKeys(out) : GetValue(k) = Ok(LastInActiveLog(k))

\* The record that starts at offset in file exists and has the key.
KeyAt(file, offset, key) == HasRecordAt(file, offset) /\ RecordAt(file, offset).key = key

\* Every segment mapping names a segment file of the directory and the
\* start of a record of its key; every active-log index entry names the
\* start of a record of its key in the active log.
MappingsValid ==
    /\ \A k \in DOMAIN segments :
            /\ segments[k].file \in DOMAIN segFiles
            /\ KeyAt(segFiles[segments[k].file], segments[k].offset, k)
    /\ \A k \in DOMAIN index : KeyAt(out, index[k], k)

\* C33: every segment mapping names a segment file that exists and a record
\* of the mapped key, so no Get fails to open its file or to decode its
\* record, whatever rollovers and merge passes run beside it.
C33_MappingsNameLiveRecords ==
    /\ MappingsValid
    /\ \A r \in Readers : rres[r].err \notin {"open", "decode"}

\* A Get has read its key from the segment that a merge pass wrote.
C33_Witness ==
    /\ lastMerge = "merged"
    /\ \E r \in Readers :
            /\ rpc[r] = "ret"
            /\ rkey[r] \in DOMAIN segments
            /\ segments[rkey[r]].file \in DOMAIN segFiles
            /\ rres[r].err = "nil"
            /\ rres[r].value \in Written(rkey[r])

\* The step in which a Put returns an error.
FailedPutStep == (\E p \in Writers : wHolder = p) /\ wHolder' = "none" /\ latest' = latest

\* C34: db.outOffset is the byte length of the active log file in every
\* state, also after a Write that failed after appending part of a record
\* and after a rollover that failed midway; every active-log index offset is
\* the start of a whole record of its key; a Put that fails leaves the
\* value Get returns for every key unchanged.
C34_OffsetIsActiveLogLength ==
    /\ [](outOffset = FileSize(out))
    /\ [](\A k \in DOMAIN index : KeyAt(out, index[k], k) /\ ~IsCut(RecordAt(out, index[k])))
    /\ [][FailedPutStep => \A k \in Keys : GetValue(k)' = GetValue(k)]_vars

\* C35: every segment that a rollover or a merge pass creates gets an ID
\* above the ID of every segment that is or was in the directory since Open:
\* db.segmentNum is above every ID in the directory and never decreases
\* while the engine is open, and a step that changes the directory creates
\* exactly the file <segmentNum>.segment, which did not exist, and rewrites
\* no file that stays.
C35_SegmentIdsIncrease ==
    /\ [](\A id \in DOMAIN segFiles : id < segmentNum)
    /\ [][/\ ~OpenStep => segmentNum' >= segmentNum
          /\ segFiles' # segFiles =>
                /\ Created = {segmentNum}
                /\ segmentNum' = segmentNum + 1
                /\ \A id \in DOMAIN segFiles \cap DOMAIN segFiles' : segFiles'[id] = segFiles[id]]_vars

\* A rollover has sealed a segment after a merge pass wrote one.
C35_Witness ==
    /\ lastMerge = "merged"
    /\ Cardinality(DOMAIN segFiles) >= 2
    /\ segmentNum >= 4
    /\ \E id \in DOMAIN segFiles : \A i \in 1..Len(segFiles[id]) : segFiles[id][i].value.ver > 1

=============================================================================
